---- MODULE Spec2Model ----
(***************************************************************************)
(* A model of the synthetic e-commerce data pipeline:                      *)
(*   generate_data.py    (Generator)  rows -> five CSV files               *)
(*   ingest_to_sqlite.py (Ingestor)   five CSV files -> SQLite database    *)
(*   analyze_data.py     (Reporter)   database -> sorted spend table       *)
(* Each script is a sequential process; pc is its position.                *)
(*                                                                         *)
(* Text is a sequence of one-character strings.  A REAL/float with two     *)
(* decimals is the integer number of cents; the raw value of               *)
(* random.uniform is kept in thousandths so that round(x, 2) computes.     *)
(***************************************************************************)
EXTENDS Integers, Sequences, FiniteSets

\* ---------------------------------------------------------------- bounds
\* Rows per generated table (20 in the source, scaled down for checking).
ROW_COUNT == 2
\* The seed the Generator passes to random.seed.
RANDOM_SEED == 42
\* Raw values one draw of the pseudo-random generator can take.
RawMax == 4
\* The seeded stream is a tape of TapeLen raw values, read cyclically.
TapeLen == 3
\* How many times the Generator (or the Ingestor) is launched.
MaxRuns == 2

VARIABLES
    proc,        \* which script is running: "none", "generator", "ingestor", "reporter"
    pc,          \* its position
    runs,        \* launches so far
    mt,          \* the stream random.seed(RANDOM_SEED) yields (a fixed unknown function)
    rng,         \* the state of the module-level random generator
    categories, products, customers, orders, order_items,   \* Generator's lists
    files,       \* the five CSV files on disk
    prevFiles,   \* the files as the previous Generator run left them
    db,          \* the database file: committed content
    dbAtStart,   \* the database file as it was when the running script started
    conn,        \* the sqlite3 connection: "none", "open", "closed"
    fk,          \* PRAGMA foreign_keys of the connection
    txn,         \* the open transaction's view of the tables, or NoTxn
    parsed,      \* insert_data's five converted row lists
    batch,       \* index into InsertOrder of the next executemany
    err,         \* the exception that is propagating, or NoErr
    result,      \* the rows fetch_top_customers returned
    out          \* what the Reporter printed

vars == <<proc, pc, runs, mt, rng, categories, products, customers, orders,
          order_items, files, prevFiles, db, dbAtStart, conn, fk, txn, parsed,
          batch, err, result, out>>

genVars == <<categories, products, customers, orders, order_items>>
dbVars == <<db, dbAtStart, conn, fk, txn, parsed, batch>>
repVars == <<result, out>>

\* ------------------------------------------------------------------ text
\* The characters the model uses, in code-point order.
Alphabet == <<" ", "$", "+", "-", ".", "0", "1", "2", "3", "4", "5", "6",
              "7", "8", "9", "@", "A", "B", "C", "D", "E", "F", "G", "H",
              "I", "J", "K", "L", "M", "N", "O", "P", "Q", "R", "S", "T",
              "U", "V", "W", "X", "Y", "Z", "_", "a", "b", "c", "d", "e",
              "f", "g", "h", "i", "j", "k", "l", "m", "n", "o", "p", "q",
              "r", "s", "t", "u", "v", "w", "x", "y", "z", "|">>

CharCode(c) == CHOOSE i \in 1..Len(Alphabet) : Alphabet[i] = c

DigitChars == <<"0", "1", "2", "3", "4", "5", "6", "7", "8", "9">>

IsDigit(c) == \E d \in 1..10 : DigitChars[d] = c

DigitVal(c) == (CHOOSE d \in 1..10 : DigitChars[d] = c) - 1

\* str(n) for a non-negative int.
RECURSIVE IntStr(_)
IntStr(n) == IF n < 10 THEN <<DigitChars[n + 1]>>
             ELSE IntStr(n \div 10) \o <<DigitChars[(n % 10) + 1]>>

RECURSIVE DigitsVal(_)
DigitsVal(s) == IF Len(s) = 0 THEN 0
                ELSE 10 * DigitsVal(SubSeq(s, 1, Len(s) - 1)) + DigitVal(s[Len(s)])

AllDigits(s) == Len(s) > 0 /\ \A i \in 1..Len(s) : IsDigit(s[i])

\* What a failed conversion is.
Bad == -1

\* int(text): decimal digits only (the forms the model's CSV cells take).
ParseInt(s) == IF AllDigits(s) THEN DigitsVal(s) ELSE Bad

\* repr of a float with at most two decimals, given in cents: 1000 -> "10.0",
\* 7330 -> "73.3", 7333 -> "73.33", 905 -> "9.05".
FloatStr(c) ==
    LET whole == IntStr(c \div 100)
        fr == c % 100
        frac == IF fr % 10 = 0 THEN <<DigitChars[(fr \div 10) + 1]>>
                ELSE <<DigitChars[(fr \div 10) + 1], DigitChars[(fr % 10) + 1]>>
    IN whole \o <<".">> \o frac

DotAt(s) == IF \E i \in 1..Len(s) : s[i] = "."
            THEN CHOOSE i \in 1..Len(s) : s[i] = "." /\ \A j \in 1..(i - 1) : s[j] # "."
            ELSE 0

\* float(text), in cents: digits, or digits "." one or two digits.
ParseFloat(s) ==
    LET d == DotAt(s)
        whole == SubSeq(s, 1, d - 1)
        frac == SubSeq(s, d + 1, Len(s))
    IN IF d = 0 THEN (IF AllDigits(s) THEN 100 * DigitsVal(s) ELSE Bad)
       ELSE IF AllDigits(whole) /\ AllDigits(frac) /\ Len(frac) <= 2
            THEN 100 * DigitsVal(whole)
                 + (IF Len(frac) = 1 THEN 10 * DigitsVal(frac) ELSE DigitsVal(frac))
            ELSE Bad

\* s < t in code-point (memcmp / BINARY collation) order.
RECURSIVE LexLess(_, _)
LexLess(s, t) ==
    IF Len(t) = 0 THEN FALSE
    ELSE IF Len(s) = 0 THEN TRUE
    ELSE IF s[1] # t[1] THEN CharCode(s[1]) < CharCode(t[1])
    ELSE LexLess(Tail(s), Tail(t))

\* str.ljust(width)
RECURSIVE LJust(_, _)
LJust(s, w) == IF Len(s) >= w THEN s ELSE LJust(s \o <<" ">>, w)

RECURSIVE Repeat(_, _)
Repeat(c, n) == IF n <= 0 THEN <<>> ELSE <<c>> \o Repeat(c, n - 1)

\* sep.join(parts)
RECURSIVE Join(_, _)
Join(sep, parts) ==
    IF Len(parts) = 0 THEN <<>>
    ELSE IF Len(parts) = 1 THEN parts[1]
    ELSE parts[1] \o sep \o Join(sep, Tail(parts))

\* --------------------------------------------------------- Python values
PyInt(n) == [t |-> "int", v |-> n]
PyFloat(c) == [t |-> "float", v |-> c]
PyText(s) == [t |-> "str", v |-> s]
\* datetime(2023, month, 1) + timedelta(days) as a date (days stay in the month).
PyDate(month, days) == [t |-> "date", v |-> <<2023, month, 1 + days>>]

TwoDigits(n) == <<DigitChars[(n \div 10) + 1], DigitChars[(n % 10) + 1]>>

\* str(value), as csv.DictWriter applies it to every cell.
PyStr(x) ==
    CASE x.t = "int" -> IntStr(x.v)
      [] x.t = "float" -> FloatStr(x.v)
      [] x.t = "str" -> x.v
      [] x.t = "date" -> IntStr(x.v[1]) \o <<"-">> \o TwoDigits(x.v[2]) \o <<"-">>
                         \o TwoDigits(x.v[3])

\* round(x, 2) of a value in thousandths, in cents (half to even).
Round2(m) ==
    LET q == m \div 10
        r == m % 10
    IN IF r < 5 THEN q
       ELSE IF r > 5 THEN q + 1
       ELSE IF q % 2 = 0 THEN q ELSE q + 1

\* ------------------------------------------------------- random module
\* The generator is a cycle of TapeLen raw values (mt) and a position on it
\* (rng).  Importing random leaves the position wherever the operating
\* system's entropy puts it; random.seed(s) sets it from s alone.
Tapes == [1..TapeLen -> 0..(RawMax - 1)]
Entropy == 0..(TapeLen - 1)

\* random.seed(seed)
SeedRandomSkipped(seed) == rng
SeedRandom(seed) == seed % TapeLen

\* k raw values of the cycle tape from position pos on.
StreamFrom(tape, pos, k) == [i \in 1..k |-> tape[((pos + i - 1) % TapeLen) + 1]]

\* The next k raw draws, and the position after them.
Draws(k) == StreamFrom(mt, rng, k)
Advance(k) == (rng + k) % TapeLen

\* random.uniform(10, 200), in thousandths.
Uniform(raw) == 10000 + ((raw * 63333) % 190001)
\* random.randint(a, b)
RandInt(a, b, raw) == a + (raw % (b - a + 1))
\* random.choice(seq)
Choice(seq, raw) == seq[1 + (raw % Len(seq))]

\* The digits an f-string puts for {i}.
Digits(i) == IntStr(i)

\* ------------------------------------------------------------ Generator
generate_categories ==
    [i \in 1..ROW_COUNT |->
        [category_id |-> PyInt(i),
         name |-> PyText(<<"C", "a", "t", "e", "g", "o", "r", "y", " ">> \o Digits(i)),
         description |-> PyText(<<"D", "e", "s", "c", "r", "i", "p", "t", "i", "o", "n",
                                  " ", "f", "o", "r", " ", "c", "a", "t", "e", "g", "o",
                                  "r", "y", " ">> \o Digits(i))]]

\* d: the 2 * ROW_COUNT raw draws the loop consumes (uniform, randint per product).
generate_products(cats, d) ==
    [i \in 1..ROW_COUNT |->
        [product_id |-> PyInt(i),
         category_id |-> cats[((i - 1) % Len(cats)) + 1].category_id,
         name |-> PyText(<<"P", "r", "o", "d", "u", "c", "t", " ">> \o Digits(i)),
         price |-> PyFloat(Round2(Uniform(d[2 * i - 1]))),
         stock |-> PyInt(RandInt(5, 50, d[2 * i]))]]

generate_customers ==
    [i \in 1..ROW_COUNT |->
        [customer_id |-> PyInt(i),
         first_name |-> PyText(<<"F", "i", "r", "s", "t">> \o Digits(i)),
         last_name |-> PyText(<<"L", "a", "s", "t">> \o Digits(i)),
         email |-> PyText(<<"u", "s", "e", "r">> \o Digits(i)
                          \o <<"@", "e", "x", "a", "m", "p", "l", "e", ".", "c", "o", "m">>),
         signup_date |-> PyDate(1, i)]]

Statuses == << <<"p", "e", "n", "d", "i", "n", "g">>,
               <<"s", "h", "i", "p", "p", "e", "d">>,
               <<"d", "e", "l", "i", "v", "e", "r", "e", "d">> >>

\* d: the 2 * ROW_COUNT raw draws (choice of customer, choice of status per order).
generate_orders_id_drawn(custs, d) ==
    [i \in 1..ROW_COUNT |->
        [order_id |-> PyInt(i),
         customer_id |-> PyInt(RandInt(1, ROW_COUNT + 1, d[2 * i - 1])),
         order_date |-> PyDate(2, i),
         status |-> PyText(Choice(Statuses, d[2 * i])),
         total |-> PyInt(0)]]
generate_orders(custs, d) ==
    [i \in 1..ROW_COUNT |->
        [order_id |-> PyInt(i),
         customer_id |-> Choice(custs, d[2 * i - 1]).customer_id,
         order_date |-> PyDate(2, i),
         status |-> PyText(Choice(Statuses, d[2 * i])),
         total |-> PyInt(0)]]

\* The item the loop body builds for the k-th order.
OrderItemFor(ords, prods, d, k) ==
    LET product == Choice(prods, d[2 * k - 1])
        quantity == RandInt(1, 3, d[2 * k])
        line_total == PyFloat(Round2(product.price.v * 10 * quantity))
    IN [order_item_id |-> PyInt(k),
        order_id |-> ords[k].order_id,
        product_id |-> product.product_id,
        quantity |-> PyInt(quantity),
        unit_price |-> product.price,
        line_total |-> line_total]

\* d: the 2 * len(orders) raw draws (choice of product, randint per order).
\* Returns the new list and the orders as the loop leaves them (total set).
generate_order_items_total_kept(ords, prods, d) ==
    [order_items |-> [k \in 1..Len(ords) |-> OrderItemFor(ords, prods, d, k)],
     orders |-> ords]
generate_order_items(ords, prods, d) ==
    [order_items |-> [k \in 1..Len(ords) |-> OrderItemFor(ords, prods, d, k)],
     orders |-> [k \in 1..Len(ords) |->
                    [ords[k] EXCEPT !.total = OrderItemFor(ords, prods, d, k).line_total]]]

\* ---------------------------------------------------------------- files
FileNames == <<"categories", "products", "customers", "orders", "order_items">>
FileSet == {FileNames[i] : i \in 1..Len(FileNames)}

AbsentFile == [exists |-> FALSE, header |-> <<>>, rows |-> <<>>]

\* write_csv: the header, then str() of each row's value per field.
write_csv(fieldnames, rows) ==
    [exists |-> TRUE,
     header |-> fieldnames,
     rows |-> [i \in 1..Len(rows) |->
                 [j \in 1..Len(fieldnames) |-> PyStr(rows[i][fieldnames[j]])]]]

Fieldnames(f) ==
    CASE f = "categories" -> <<"category_id", "name", "description">>
      [] f = "products" -> <<"product_id", "category_id", "name", "price", "stock">>
      [] f = "customers" -> <<"customer_id", "first_name", "last_name", "email",
                              "signup_date">>
      [] f = "orders" -> <<"order_id", "customer_id", "order_date", "status", "total">>
      [] f = "order_items" -> <<"order_item_id", "order_id", "product_id", "quantity",
                                "unit_price", "line_total">>

\* No exception is propagating; no transaction is open.
NoErr == [type |-> "none", missing |-> <<>>]
NoTxn == [active |-> FALSE, tables |-> <<>>]

\* ------------------------------------------------- Generator: main()
GenStart ==
    /\ proc = "none"
    /\ runs < MaxRuns
    /\ proc' = "generator"
    /\ pc' = "seed"
    /\ runs' = runs + 1
    /\ rng' \in Entropy
    /\ prevFiles' = files
    /\ categories' = <<>> /\ products' = <<>> /\ customers' = <<>>
    /\ orders' = <<>> /\ order_items' = <<>>
    /\ err' = NoErr
    /\ UNCHANGED <<mt, files, dbVars, repVars>>

GenSeed ==
    /\ proc = "generator" /\ pc = "seed"
    /\ rng' = SeedRandom(RANDOM_SEED)
    /\ pc' = "categories"
    /\ UNCHANGED <<proc, runs, mt, genVars, files, prevFiles, dbVars, err, repVars>>

GenCategories ==
    /\ proc = "generator" /\ pc = "categories"
    /\ categories' = generate_categories
    /\ pc' = "products"
    /\ UNCHANGED <<proc, runs, mt, rng, products, customers, orders, order_items,
                   files, prevFiles, dbVars, err, repVars>>

GenProducts ==
    /\ proc = "generator" /\ pc = "products"
    /\ products' = generate_products(categories, Draws(2 * ROW_COUNT))
    /\ rng' = Advance(2 * ROW_COUNT)
    /\ pc' = "customers"
    /\ UNCHANGED <<proc, runs, mt, categories, customers, orders, order_items,
                   files, prevFiles, dbVars, err, repVars>>

GenCustomers ==
    /\ proc = "generator" /\ pc = "customers"
    /\ customers' = generate_customers
    /\ pc' = "orders"
    /\ UNCHANGED <<proc, runs, mt, rng, categories, products, orders, order_items,
                   files, prevFiles, dbVars, err, repVars>>

GenOrders ==
    /\ proc = "generator" /\ pc = "orders"
    /\ orders' = generate_orders(customers, Draws(2 * ROW_COUNT))
    /\ rng' = Advance(2 * ROW_COUNT)
    /\ pc' = "order_items"
    /\ UNCHANGED <<proc, runs, mt, categories, products, customers, order_items,
                   files, prevFiles, dbVars, err, repVars>>

GenOrderItems ==
    /\ proc = "generator" /\ pc = "order_items"
    /\ LET r == generate_order_items(orders, products, Draws(2 * Len(orders)))
       IN order_items' = r.order_items /\ orders' = r.orders
    /\ rng' = Advance(2 * Len(orders))
    /\ pc' = "write"
    /\ UNCHANGED <<proc, runs, mt, categories, products, customers,
                   files, prevFiles, dbVars, err, repVars>>

\* The five write_csv calls, then the process ends.
GenWrite ==
    /\ proc = "generator" /\ pc = "write"
    /\ files' = [f \in FileSet |->
                   write_csv(Fieldnames(f),
                             CASE f = "categories" -> categories
                               [] f = "products" -> products
                               [] f = "customers" -> customers
                               [] f = "orders" -> orders
                               [] f = "order_items" -> order_items)]
    /\ proc' = "none"
    /\ pc' = "generated"
    /\ UNCHANGED <<runs, mt, rng, genVars, prevFiles, dbVars, err, repVars>>

GenNext == GenStart \/ GenSeed \/ GenCategories \/ GenProducts \/ GenCustomers
           \/ GenOrders \/ GenOrderItems \/ GenWrite


\* ------------------------------------------------------------- Ingestor
\* SQL NULL (no text equals it: text is made of one-character strings).
Null == <<"NULL">>


\* A database file that does not exist, and one that holds no table.
NoDb == [exists |-> FALSE, tables |-> [t \in FileSet |-> [created |-> FALSE, rows |-> <<>>]]]
EmptyDb == [exists |-> TRUE, tables |-> [t \in FileSet |-> [created |-> FALSE, rows |-> <<>>]]]

\* CSV_FILES: the five paths, in the dict's order.
CSV_FILES == FileNames

RECURSIVE SelectSeq2(_, _, _)
SelectSeq2(seq, fs, i) ==
    IF i > Len(seq) THEN <<>>
    ELSE (IF ~fs[seq[i]].exists THEN <<seq[i]>> ELSE <<>>) \o SelectSeq2(seq, fs, i + 1)

\* ensure_files_exist: the paths that do not exist, in CSV_FILES order.
MissingFilesFirstOnly(fs) ==
    LET all == SelectSeq2(CSV_FILES, fs, 1) IN IF Len(all) > 1 THEN <<all[1]>> ELSE all
MissingFiles(fs) == SelectSeq2(CSV_FILES, fs, 1)

HeaderPos(file, field) ==
    IF \E j \in 1..Len(file.header) : file.header[j] = field
    THEN CHOOSE j \in 1..Len(file.header) : file.header[j] = field
    ELSE 0

\* read_csv: csv.DictReader's dict for each data row, keyed by the header.
read_csv(file) ==
    [i \in 1..Len(file.rows) |->
        [h \in {file.header[j] : j \in 1..Len(file.header)} |->
            file.rows[i][HeaderPos(file, h)]]]

\* r.get("description") or None
DescriptionOrNone(r) ==
    IF "description" \in DOMAIN r /\ Len(r["description"]) > 0 THEN r["description"]
    ELSE Null

\* The dict insert_data builds from one CSV row of table t (Bad where int() or
\* float() raises ValueError).
ConvertRow(t, r) ==
    CASE t = "categories" ->
           [category_id |-> ParseInt(r["category_id"]),
            name |-> r["name"],
            description |-> DescriptionOrNone(r)]
      [] t = "products" ->
           [product_id |-> ParseInt(r["product_id"]),
            category_id |-> ParseInt(r["category_id"]),
            name |-> r["name"],
            price |-> ParseFloat(r["price"]),
            stock |-> ParseInt(r["stock"])]
      [] t = "customers" ->
           [customer_id |-> ParseInt(r["customer_id"]),
            first_name |-> r["first_name"],
            last_name |-> r["last_name"],
            email |-> r["email"],
            signup_date |-> r["signup_date"]]
      [] t = "orders" ->
           [order_id |-> ParseInt(r["order_id"]),
            customer_id |-> ParseInt(r["customer_id"]),
            order_date |-> r["order_date"],
            status |-> r["status"],
            total |-> ParseFloat(r["total"])]
      [] t = "order_items" ->
           [order_item_id |-> ParseInt(r["order_item_id"]),
            order_id |-> ParseInt(r["order_id"]),
            product_id |-> ParseInt(r["product_id"]),
            quantity |-> ParseInt(r["quantity"]),
            unit_price |-> ParseFloat(r["unit_price"]),
            line_total |-> ParseFloat(r["line_total"])]

\* The columns that int() or float() converts.
NumericFields(t) ==
    CASE t = "categories" -> {"category_id"}
      [] t = "products" -> {"product_id", "category_id", "price", "stock"}
      [] t = "customers" -> {"customer_id"}
      [] t = "orders" -> {"order_id", "customer_id", "total"}
      [] t = "order_items" -> {"order_item_id", "order_id", "product_id", "quantity",
                               "unit_price", "line_total"}

ConvertFile(t, file) ==
    LET rs == read_csv(file) IN [i \in 1..Len(rs) |-> ConvertRow(t, rs[i])]

ConversionFails(t, rows) ==
    \E i \in 1..Len(rows) : \E c \in NumericFields(t) : rows[i][c] = Bad

\* The schema of init_db: primary key and foreign keys of each table.
PrimaryKey(t) ==
    CASE t = "categories" -> "category_id"
      [] t = "products" -> "product_id"
      [] t = "customers" -> "customer_id"
      [] t = "orders" -> "order_id"
      [] t = "order_items" -> "order_item_id"

ForeignKeys(t) ==
    CASE t = "categories" -> {}
      [] t = "products" -> {<<"category_id", "categories">>}
      [] t = "customers" -> {}
      [] t = "orders" -> {<<"customer_id", "customers">>}
      [] t = "order_items" -> {<<"order_id", "orders">>, <<"product_id", "products">>}

Keys(tables, t) == {tables[t].rows[i][PrimaryKey(t)] : i \in 1..Len(tables[t].rows)}

\* Whether SQLite accepts INSERT of row into t: the primary key is new and, with
\* foreign_keys on, every parent row exists at the end of the statement.
InsertAccepted(tables, enforce, t, row) ==
    /\ row[PrimaryKey(t)] \notin Keys(tables, t)
    /\ enforce => \A k \in ForeignKeys(t) : row[k[1]] \in Keys(tables, k[2])

\* executemany(INSERT INTO t ..., rows): one INSERT per row until one is refused;
\* the refused statement alone is undone, the rows before it stay in the
\* transaction.
RECURSIVE executemany_from(_, _, _, _, _)
executemany_from(tables, enforce, t, rows, i) ==
    IF i > Len(rows) THEN [tables |-> tables, ok |-> TRUE]
    ELSE IF ~InsertAccepted(tables, enforce, t, rows[i])
         THEN [tables |-> tables, ok |-> FALSE]
         ELSE executemany_from([tables EXCEPT ![t].rows = Append(@, rows[i])],
                               enforce, t, rows, i + 1)

executemany_drops_last(tables, enforce, t, rows) ==
    executemany_from(tables, enforce, t, SubSeq(rows, 1, Len(rows) - 1), 1)
executemany(tables, enforce, t, rows) == executemany_from(tables, enforce, t, rows, 1)

\* The order of the five executemany calls of insert_data.
InsertOrderChildFirst == <<"products", "categories", "customers", "orders", "order_items">>
InsertOrder == <<"categories", "products", "customers", "orders", "order_items">>

\* PRAGMA foreign_keys = ON
ForeignKeysPragmaOff == FALSE
ForeignKeysPragma == TRUE

\* The executescript of init_db: five DROP TABLE IF EXISTS, five CREATE TABLE.
InitDbTables(tables) == [t \in FileSet |-> [created |-> TRUE, rows |-> <<>>]]

\* What the connection's context manager does on exit: commit without an
\* exception, roll back with one.  It does not close the connection.
WithExit(e, database, transaction) ==
    IF transaction.active /\ e = NoErr
    THEN [database EXCEPT !.tables = transaction.tables]
    ELSE database

IngestStart ==
    /\ proc = "none"
    /\ runs < MaxRuns
    /\ proc' = "ingestor"
    /\ pc' = "ensure_files_exist"
    /\ runs' = runs + 1
    /\ dbAtStart' = db
    /\ conn' = "none" /\ fk' = FALSE /\ txn' = NoTxn
    /\ parsed' = <<>> /\ batch' = 1
    /\ err' = NoErr
    /\ UNCHANGED <<mt, rng, genVars, files, prevFiles, db, repVars>>

\* main, line 182: ensure_files_exist()
IngestEnsureFiles ==
    /\ proc = "ingestor" /\ pc = "ensure_files_exist"
    /\ LET missing == MissingFiles(files)
       IN IF Len(missing) > 0
          THEN /\ err' = [type |-> "FileNotFoundError", missing |-> missing]
               /\ proc' = "none"
               /\ pc' = "ingest_failed"
          ELSE /\ err' = err
               /\ proc' = proc
               /\ pc' = "unlink"
    /\ UNCHANGED <<runs, mt, rng, genVars, files, prevFiles, dbVars, repVars>>

\* main, lines 183-184: if DB_PATH.exists(): DB_PATH.unlink()
Unlink(database) == IF database.exists THEN NoDb ELSE database

IngestUnlink ==
    /\ proc = "ingestor" /\ pc = "unlink"
    /\ db' = Unlink(db)
    /\ pc' = "connect"
    /\ UNCHANGED <<proc, runs, mt, rng, genVars, files, prevFiles, dbAtStart, conn, fk,
                   txn, parsed, batch, err, repVars>>

\* main, line 186: sqlite3.connect(DB_PATH) creates the file when there is none.
IngestConnect ==
    /\ proc = "ingestor" /\ pc = "connect"
    /\ conn' = "open"
    /\ db' = IF db.exists THEN db ELSE EmptyDb
    /\ pc' = "init_db"
    /\ UNCHANGED <<proc, runs, mt, rng, genVars, files, prevFiles, dbAtStart, fk,
                   txn, parsed, batch, err, repVars>>

\* init_db: the pragma, then the script (each statement commits by itself).
IngestInitDb ==
    /\ proc = "ingestor" /\ pc = "init_db"
    /\ fk' = ForeignKeysPragma
    /\ db' = [db EXCEPT !.tables = InitDbTables(db.tables)]
    /\ pc' = "read_csv"
    /\ UNCHANGED <<proc, runs, mt, rng, genVars, files, prevFiles, dbAtStart, conn,
                   txn, parsed, batch, err, repVars>>

\* insert_data, lines 104-156: the five list comprehensions.
IngestReadCsv ==
    /\ proc = "ingestor" /\ pc = "read_csv"
    /\ LET rows == [t \in FileSet |-> ConvertFile(t, files[t])]
       IN IF \E t \in FileSet : ConversionFails(t, rows[t])
          THEN /\ err' = [type |-> "ValueError", missing |-> <<>>]
               /\ parsed' = parsed
               /\ pc' = "connect_exit"
          ELSE /\ err' = err
               /\ parsed' = rows
               /\ pc' = "insert"
    /\ batch' = 1
    /\ UNCHANGED <<proc, runs, mt, rng, genVars, files, prevFiles, db, dbAtStart, conn,
                   fk, txn, repVars>>

\* insert_data, lines 159-178: the next executemany inside "with conn:".  The
\* first one begins the transaction.
IngestInsert ==
    /\ proc = "ingestor" /\ pc = "insert"
    /\ LET t == InsertOrder[batch]
           view == IF txn.active THEN txn.tables ELSE db.tables
           r == executemany(view, fk, t, parsed[t])
       IN /\ txn' = [active |-> TRUE, tables |-> r.tables]
          /\ IF ~r.ok
             THEN /\ err' = [type |-> "IntegrityError", missing |-> <<>>]
                  /\ pc' = "insert_exit"
                  /\ batch' = batch
             ELSE /\ err' = err
                  /\ pc' = IF batch = Len(InsertOrder) THEN "insert_exit" ELSE "insert"
                  /\ batch' = IF batch = Len(InsertOrder) THEN batch ELSE batch + 1
    /\ UNCHANGED <<proc, runs, mt, rng, genVars, files, prevFiles, db, dbAtStart, conn,
                   fk, parsed, repVars>>

\* insert_data, line 158: "with conn:" exits.
IngestInsertExit ==
    /\ proc = "ingestor" /\ pc = "insert_exit"
    /\ db' = WithExit(err, db, txn)
    /\ txn' = NoTxn
    /\ pc' = "connect_exit"
    /\ UNCHANGED <<proc, runs, mt, rng, genVars, files, prevFiles, dbAtStart, conn, fk,
                   parsed, batch, err, repVars>>

\* main, line 186: "with sqlite3.connect(DB_PATH) as conn:" exits.
IngestConnectExit ==
    /\ proc = "ingestor" /\ pc = "connect_exit"
    /\ db' = WithExit(err, db, txn)
    /\ txn' = NoTxn
    /\ pc' = "return"
    /\ UNCHANGED <<proc, runs, mt, rng, genVars, files, prevFiles, dbAtStart, conn, fk,
                   parsed, batch, err, repVars>>

\* The connection object when the function that holds the only reference to it
\* ends: returning drops the reference and the interpreter may finalise the
\* object then or later; an exception's traceback keeps the frame, and with it
\* the connection, alive.
ConnAfter(e, c) == IF e = NoErr /\ c = "open" THEN {"open", "closed"} ELSE {c}

\* main, line 190: print and return, or the exception leaves main.
IngestReturn ==
    /\ proc = "ingestor" /\ pc = "return"
    /\ conn' \in ConnAfter(err, conn)
    /\ proc' = "none"
    /\ pc' = IF err = NoErr THEN "ingested" ELSE "ingest_failed"
    /\ UNCHANGED <<runs, mt, rng, genVars, files, prevFiles, db, dbAtStart, fk, txn,
                   parsed, batch, err, repVars>>

IngestNext == IngestStart \/ IngestEnsureFiles \/ IngestUnlink \/ IngestConnect
              \/ IngestInitDb \/ IngestReadCsv \/ IngestInsert \/ IngestInsertExit
              \/ IngestConnectExit \/ IngestReturn


\* ------------------------------------------------------------- Reporter
\* QUERY: customers LEFT JOIN orders LEFT JOIN order_items, as triples of row
\* indices (0 where the left join supplies NULLs).
InnerJoin(tables) ==
    LET cs == tables["customers"].rows
        os == tables["orders"].rows
        is == tables["order_items"].rows
    IN {<<c, o, i>> \in (1..Len(cs)) \X (1..Len(os)) \X (1..Len(is)) :
           /\ os[o].customer_id = cs[c].customer_id
           /\ is[i].order_id = os[o].order_id}
LeftJoin(tables) ==
    LET cs == tables["customers"].rows
        os == tables["orders"].rows
        is == tables["order_items"].rows
        OrdersOf(c) == {o \in 1..Len(os) : os[o].customer_id = cs[c].customer_id}
        ItemsOf(o) == {i \in 1..Len(is) : is[i].order_id = os[o].order_id}
    IN UNION {
          IF OrdersOf(c) = {} THEN {<<c, 0, 0>>}
          ELSE UNION {
                 IF ItemsOf(o) = {} THEN {<<c, o, 0>>}
                 ELSE {<<c, o, i>> : i \in ItemsOf(o)}
                 : o \in OrdersOf(c)}
          : c \in 1..Len(cs)}

\* SUM(oi.line_total) over a group of joined rows: NULL rows do not count, and
\* COALESCE(.., 0) turns the sum of nothing into 0.
RECURSIVE SumLineTotal(_, _)
SumLineTotal(tables, group) ==
    IF group = {} THEN 0
    ELSE LET j == CHOOSE x \in group : TRUE
         IN (IF j[3] = 0 THEN 0 ELSE tables["order_items"].rows[j[3]].line_total)
            + SumLineTotal(tables, group \ {j})

\* GROUP BY c.customer_id, c.first_name, c.last_name, c.email with the SELECT
\* list: one result row per group of the join.
GroupRows(tables) ==
    LET cs == tables["customers"].rows
        joined == LeftJoin(tables)
        KeyOf(c) == <<cs[c].customer_id, cs[c].first_name, cs[c].last_name, cs[c].email>>
        keys == {KeyOf(j[1]) : j \in joined}
    IN {[customer_id |-> k[1],
         customer_name |-> k[2] \o <<" ">> \o k[3],
         email |-> k[4],
         total_spend |-> SumLineTotal(tables, {j \in joined : KeyOf(j[1]) = k})]
        : k \in keys}

\* ORDER BY total_spend DESC, customer_name ASC: a must come before b.
OrderByNameDesc(a, b) ==
    \/ a.total_spend > b.total_spend
    \/ a.total_spend = b.total_spend /\ LexLess(b.customer_name, a.customer_name)
OrderBy(a, b) ==
    \/ a.total_spend > b.total_spend
    \/ a.total_spend = b.total_spend /\ LexLess(a.customer_name, b.customer_name)

\* The sequences the query may return: the groups, no row after a row it must
\* precede (rows equal in both sort keys come in either order).
QueryResults(tables) ==
    LET g == GroupRows(tables)
        n == Cardinality(g)
    IN {r \in [1..n -> g] :
           /\ \A i, j \in 1..n : i # j => r[i] # r[j]
           /\ \A i, j \in 1..n : i < j => ~OrderBy(r[j], r[i])}

\* f"${x:.2f}" of an amount in cents.
FormatSpend(c) == <<"$">> \o IntStr(c \div 100) \o <<".">> \o TwoDigits(c % 100)

Headers == << <<"C", "u", "s", "t", "o", "m", "e", "r", " ", "I", "D">>,
              <<"N", "a", "m", "e">>,
              <<"E", "m", "a", "i", "l">>,
              <<"T", "o", "t", "a", "l", " ", "S", "p", "e", "n", "d">> >>

RECURSIVE MaxOf(_)
MaxOf(S) == LET x == CHOOSE y \in S : TRUE
            IN IF S = {x} THEN x
               ELSE LET m == MaxOf(S \ {x}) IN IF x > m THEN x ELSE m

\* format_table's data: the four cells of each row, as text.
TableData(rows) ==
    [k \in 1..Len(rows) |->
        <<IntStr(rows[k].customer_id), rows[k].customer_name, rows[k].email,
          FormatSpend(rows[k].total_spend)>>]

\* format_table: header, divider and one line per row, columns padded to the
\* widest cell.
format_table(rows) ==
    LET data == TableData(rows)
        col_widths == [i \in 1..4 |->
                         MaxOf({Len(Headers[i])} \cup {Len(data[k][i]) : k \in 1..Len(data)})]
        fmt_row(items) == Join(<<" ", "|", " ">>,
                               [i \in 1..4 |-> LJust(items[i], col_widths[i])])
        divider == Join(<<"-", "+", "-">>, [i \in 1..4 |-> Repeat("-", col_widths[i])])
    IN <<fmt_row(Headers), divider>> \o [k \in 1..Len(data) |-> fmt_row(data[k])]

NoDataFound == <<"N", "o", " ", "d", "a", "t", "a", " ", "f", "o", "u", "n", "d", ".">>
TopCustomersTitle == <<"T", "o", "p", " ", "C", "u", "s", "t", "o", "m", "e", "r", "s", " ",
                       "b", "y", " ", "T", "o", "t", "a", "l", " ", "S", "p", "e", "n", "d",
                       ":">>

\* The Reporter changes nothing it reads: one run on each store is modelled.
ReportStart ==
    /\ proc = "none"
    /\ runs = 0
    /\ proc' = "reporter"
    /\ pc' = "exists"
    /\ runs' = runs + 1
    /\ dbAtStart' = db
    /\ conn' = "none" /\ txn' = NoTxn
    /\ err' = NoErr
    /\ result' = <<>> /\ out' = <<>>
    /\ UNCHANGED <<mt, rng, genVars, files, prevFiles, db, fk, parsed, batch>>

\* fetch_top_customers, lines 29-30
ReportCheckExists ==
    /\ proc = "reporter" /\ pc = "exists"
    /\ IF ~db.exists
       THEN /\ err' = [type |-> "FileNotFoundError", missing |-> <<>>]
            /\ proc' = "none"
            /\ pc' = "report_failed"
       ELSE /\ err' = err
            /\ proc' = proc
            /\ pc' = "connect"
    /\ UNCHANGED <<runs, mt, rng, genVars, files, prevFiles, dbVars, repVars>>

\* fetch_top_customers, lines 31-32
ReportConnect ==
    /\ proc = "reporter" /\ pc = "connect"
    /\ conn' = "open"
    /\ pc' = "query"
    /\ UNCHANGED <<proc, runs, mt, rng, genVars, files, prevFiles, db, dbAtStart, fk, txn,
                   parsed, batch, err, repVars>>

\* fetch_top_customers, lines 33-34: execute and fetchall; a table the query
\* names that does not exist is an OperationalError.
ReportQuery ==
    /\ proc = "reporter" /\ pc = "query"
    /\ IF \E t \in {"customers", "orders", "order_items"} : ~db.tables[t].created
       THEN /\ err' = [type |-> "OperationalError", missing |-> <<>>]
            /\ result' = result
       ELSE /\ err' = err
            /\ result' \in QueryResults(db.tables)
    /\ pc' = "connect_exit"
    /\ UNCHANGED <<proc, runs, mt, rng, genVars, files, prevFiles, dbVars, out>>

\* fetch_top_customers, line 31: the with block exits and the function returns
\* (or the exception leaves it).
ReportConnectExit ==
    /\ proc = "reporter" /\ pc = "connect_exit"
    /\ db' = WithExit(err, db, txn)
    /\ txn' = NoTxn
    /\ conn' \in ConnAfter(err, conn)
    /\ proc' = IF err = NoErr THEN proc ELSE "none"
    /\ pc' = IF err = NoErr THEN "print" ELSE "report_failed"
    /\ UNCHANGED <<runs, mt, rng, genVars, files, prevFiles, dbAtStart, fk, parsed,
                   batch, err, repVars>>

\* main, lines 66-71
ReportPrint ==
    /\ proc = "reporter" /\ pc = "print"
    /\ out' = IF Len(result) = 0 THEN <<NoDataFound>>
              ELSE <<TopCustomersTitle, <<>>>> \o format_table(result)
    /\ proc' = "none"
    /\ pc' = "reported"
    /\ UNCHANGED <<runs, mt, rng, genVars, files, prevFiles, dbVars, err, result>>

ReportNext == ReportStart \/ ReportCheckExists \/ ReportConnect \/ ReportQuery
              \/ ReportConnectExit \/ ReportPrint


\* ------------------------------------------------------- specifications
AllAbsent == [f \in FileSet |-> AbsentFile]

Idle ==
    /\ proc = "none" /\ pc = "idle" /\ runs = 0
    /\ rng = 0
    /\ categories = <<>> /\ products = <<>> /\ customers = <<>>
    /\ orders = <<>> /\ order_items = <<>>
    /\ conn = "none" /\ fk = FALSE /\ txn = NoTxn
    /\ parsed = <<>> /\ batch = 1
    /\ err = NoErr
    /\ result = <<>> /\ out = <<>>

\* The pipeline on an empty directory: Generator and Ingestor runs, one after
\* another, in any order.
Init ==
    /\ Idle
    /\ mt \in Tapes
    /\ files = AllAbsent /\ prevFiles = AllAbsent
    /\ db = NoDb /\ dbAtStart = NoDb

Next == GenNext \/ IngestNext

Spec == Init /\ [][Next]_vars


\* The files one Generator run writes when the cycle is tape.
GeneratedFiles(tape) ==
    LET p0 == SeedRandom(RANDOM_SEED)
        cats == generate_categories
        prods == generate_products(cats, StreamFrom(tape, p0, 2 * ROW_COUNT))
        custs == generate_customers
        ords == generate_orders(custs, StreamFrom(tape, p0 + 2 * ROW_COUNT, 2 * ROW_COUNT))
        r == generate_order_items(ords, prods,
                                  StreamFrom(tape, p0 + 4 * ROW_COUNT, 2 * ROW_COUNT))
    IN [f \in FileSet |->
          write_csv(Fieldnames(f),
                    CASE f = "categories" -> cats
                      [] f = "products" -> prods
                      [] f = "customers" -> custs
                      [] f = "orders" -> r.orders
                      [] f = "order_items" -> r.order_items)]

\* Two cycles the Ingestor's inputs are built from: all draws 0, and a ramp.
BaseTapes == {[i \in 1..TapeLen |-> 0], [i \in 1..TapeLen |-> (i - 1) % RawMax]}

\* What one cell of a CSV file may have been edited to: made empty, made
\* non-numeric, made the id 1 (a duplicate key, or another parent), made an id
\* no generated row has.
EditTexts == {<<>>, <<"x">>, IntStr(1), IntStr(ROW_COUNT + 1)}

EditCell(fs, f, i, j, text) == [fs EXCEPT ![f].rows[i][j] = text]
DropLastRow(fs, f) ==
    [fs EXCEPT ![f].rows = SubSeq(@, 1, Len(@) - 1)]
Remove(fs, gone) == [f \in FileSet |-> IF f \in gone THEN AbsentFile ELSE fs[f]]

\* The CSV sets the Ingestor is run on: a generated set, as it is, with one
\* cell edited, with the last row of one file dropped, or with some files
\* missing.
IngestInputs ==
    LET bases == {GeneratedFiles(tape) : tape \in BaseTapes}
    IN bases
       \cup {EditCell(b, f, i, j, x) :
                b \in bases, f \in FileSet, i \in 1..ROW_COUNT, j \in 1..3, x \in EditTexts}
       \cup {EditCell(b, "order_items", i, 6, x) :
                b \in bases, i \in 1..ROW_COUNT, x \in EditTexts}
       \cup {DropLastRow(b, f) : b \in bases, f \in FileSet}
       \cup {Remove(b, gone) : b \in bases, gone \in (SUBSET FileSet) \ {{}}}

TablesOf(fs) == [t \in FileSet |-> [created |-> TRUE, rows |-> ConvertFile(t, fs[t])]]

\* The database file before the run: none, one without tables, or the result
\* of an earlier ingest of other CSVs.
OldDb == [exists |-> TRUE,
          tables |-> TablesOf(GeneratedFiles([i \in 1..TapeLen |-> RawMax - 1]))]

InitIngest ==
    /\ Idle
    /\ mt = [i \in 1..TapeLen |-> 0]
    /\ files \in IngestInputs /\ prevFiles = files
    /\ db \in {NoDb, EmptyDb, OldDb} /\ dbAtStart = db

SpecIngest == InitIngest /\ [][IngestNext]_vars

\* The stores the Reporter is run on.
MaxCustomers == 2

\* (first_name, last_name) pairs: "Al A", "Al Z", "Al B A", "Bob A".
Names == {<<<<"A", "l">>, <<"A">>>>, <<<<"A", "l">>, <<"Z">>>>,
          <<<<"A", "l", " ", "B">>, <<"A">>>>, <<<<"B", "o", "b">>, <<"A">>>>}
Amounts == {5000, 15000}

ReportCustomers == UNION {[1..n -> Names] : n \in 0..MaxCustomers}
ReportOrders(n) == IF n = 0 THEN {<<>>} ELSE UNION {[1..m -> 1..n] : m \in 0..2}
ReportItems(m) == IF m = 0 THEN {<<>>} ELSE UNION {[1..k -> (1..m) \X Amounts] : k \in 0..2}

ReportTables(cs, os, is) ==
    [t \in FileSet |->
        [created |-> TRUE,
         rows |-> CASE t = "customers" ->
                         [c \in 1..Len(cs) |->
                             [customer_id |-> c, first_name |-> cs[c][1],
                              last_name |-> cs[c][2],
                              email |-> <<"u">> \o IntStr(c) \o <<"@", "x">>,
                              signup_date |-> <<"2", "0", "2", "3">>]]
                   [] t = "orders" ->
                         [o \in 1..Len(os) |->
                             [order_id |-> o, customer_id |-> os[o],
                              order_date |-> <<"2", "0", "2", "3">>,
                              status |-> Statuses[1], total |-> 0]]
                   [] t = "order_items" ->
                         [i \in 1..Len(is) |->
                             [order_item_id |-> i, order_id |-> is[i][1], product_id |-> 1,
                              quantity |-> 1, unit_price |-> is[i][2],
                              line_total |-> is[i][2]]]
                   [] t = "products" ->
                         <<[product_id |-> 1, category_id |-> 1, name |-> <<"P">>,
                            price |-> 5000, stock |-> 5]>>
                   [] t = "categories" ->
                         <<[category_id |-> 1, name |-> <<"C">>, description |-> Null]>>]]

InitReport ==
    /\ Idle
    /\ mt = [i \in 1..TapeLen |-> 0]
    /\ files = AllAbsent /\ prevFiles = files
    /\ \E cs \in ReportCustomers : \E os \in ReportOrders(Len(cs)) :
          \E is \in ReportItems(Len(os)) :
             db \in {NoDb, EmptyDb, [exists |-> TRUE, tables |-> ReportTables(cs, os, is)]}
    /\ dbAtStart = db

SpecReport == InitReport /\ [][ReportNext]_vars


\* =============================================================== claims
Finished == proc = "none" /\ pc \in {"ingested", "ingest_failed"}
AllExist == \A f \in FileSet : files[f].exists
Parses == \A t \in FileSet : ~ConversionFails(t, ConvertFile(t, files[t]))
IdsOf(rows, field) == {rows[i][field] : i \in 1..Len(rows)}

\* Some child row of the CSV set names a parent id its parent file does not hold.
Dangling ==
    LET rows == [t \in FileSet |-> ConvertFile(t, files[t])]
    IN \/ \E i \in 1..Len(rows["products"]) :
             rows["products"][i].category_id \notin IdsOf(rows["categories"], "category_id")
       \/ \E i \in 1..Len(rows["orders"]) :
             rows["orders"][i].customer_id \notin IdsOf(rows["customers"], "customer_id")
       \/ \E i \in 1..Len(rows["order_items"]) :
             \/ rows["order_items"][i].order_id \notin IdsOf(rows["orders"], "order_id")
             \/ rows["order_items"][i].product_id
                   \notin IdsOf(rows["products"], "product_id")

NoRows(tables) == \A t \in FileSet : tables[t].rows = <<>>

\* C1: a run on a CSV set with a dangling foreign key ends with an error and with
\* all five tables empty; and whatever the CSV set, once the tables are created
\* the committed tables are all empty or all completely loaded.
C1_DanglingFkFailsWithNothingCommitted ==
    /\ (Finished /\ AllExist /\ Dangling) =>
          /\ pc = "ingest_failed"
          /\ err # NoErr
          /\ Parses => err.type = "IntegrityError"
          /\ NoRows(db.tables)
    /\ (proc = "ingestor" /\ pc \in {"insert", "insert_exit", "connect_exit", "return"}) =>
          \/ NoRows(db.tables)
          \/ \A t \in FileSet : db.tables[t].rows = parsed[t]

\* A failed load of a dangling CSV set over a database that held rows.
C1_Witness ==
    /\ Finished /\ AllExist /\ Dangling /\ Parses
    /\ err.type = "IntegrityError"
    /\ dbAtStart = OldDb
    /\ Len(parsed["categories"]) > 0

MissingSet == {f \in FileSet : ~files[f].exists}

\* C2: with some CSV file absent the run ends with FileNotFoundError naming
\* exactly the absent paths, and at no point of the run is the database file
\* changed or a connection opened.
C2_MissingFilesReportedBeforeAnyWork ==
    (MissingSet # {} /\ runs > 0) =>
        /\ db = dbAtStart
        /\ conn = "none"
        /\ proc = "ingestor" => pc = "ensure_files_exist"
        /\ proc = "none" =>
              /\ pc = "ingest_failed"
              /\ err.type = "FileNotFoundError"
              /\ {err.missing[i] : i \in 1..Len(err.missing)} = MissingSet
              /\ Len(err.missing) = Cardinality(MissingSet)

\* Two files absent, a populated database left as it was.
C2_Witness ==
    /\ Cardinality(MissingSet) = 2
    /\ proc = "none" /\ pc = "ingest_failed"
    /\ db = OldDb

\* C3: after a successful run every table holds exactly the converted rows of
\* its CSV file, one per CSV row, whatever the file held before; a second run on
\* the same CSVs leaves the same content.
C3_FullRebuild ==
    (proc = "none" /\ pc = "ingested") =>
        /\ \A t \in FileSet :
              /\ db.tables[t].created
              /\ Len(db.tables[t].rows) = Len(files[t].rows)
              /\ Cardinality(Keys(db.tables, t)) = Len(files[t].rows)
              /\ \A i \in 1..Len(files[t].rows) :
                    db.tables[t].rows[i] = ConvertRow(t, read_csv(files[t])[i])
        /\ \A i \in 1..Len(files["categories"].rows) :
              /\ db.tables["categories"].rows[i].category_id
                    = DigitsVal(files["categories"].rows[i][1])
              /\ files["categories"].rows[i][3] = <<>> =>
                    db.tables["categories"].rows[i].description = Null
        /\ runs > 1 => db = dbAtStart

\* A successful run over a database that held the rows of other CSVs.
C3_Witness ==
    /\ proc = "none" /\ pc = "ingested"
    /\ dbAtStart = OldDb
    /\ db.tables # OldDb.tables
    /\ Len(db.tables["order_items"].rows) > 0

\* C4: every foreign key of the generated rows is the key of a generated row.
C4_GeneratedReferentialIntegrity ==
    /\ \A i \in 1..Len(products) :
          products[i].category_id \in IdsOf(categories, "category_id")
    /\ \A i \in 1..Len(orders) :
          orders[i].customer_id \in IdsOf(customers, "customer_id")
    /\ \A i \in 1..Len(order_items) :
          /\ order_items[i].order_id \in IdsOf(orders, "order_id")
          /\ order_items[i].product_id \in IdsOf(products, "product_id")

\* All five lists generated, with draws that did not all pick the first row.
C4_Witness ==
    /\ proc = "generator" /\ pc = "write"
    /\ Len(order_items) = ROW_COUNT
    /\ \E i \in 1..Len(orders) : orders[i].customer_id.v = ROW_COUNT
    /\ \E i \in 1..Len(order_items) : order_items[i].product_id.v > 1

\* C5: once generate_order_items has run, each item's unit_price is its
\* product's price and its line_total is round(unit_price * quantity, 2); each
\* order has exactly one item and its total is that item's line_total, not the
\* initial 0.
C5_LineTotalsAndOrderTotals ==
    (pc \in {"write", "generated"}) =>
        /\ \A i \in 1..Len(order_items) :
              LET it == order_items[i]
              IN /\ \E p \in 1..Len(products) :
                       /\ products[p].product_id = it.product_id
                       /\ products[p].price = it.unit_price
                 /\ it.line_total.t = "float"
                 /\ it.line_total.v = Round2(it.unit_price.v * 10 * it.quantity.v)
        /\ \A o \in 1..Len(orders) :
              LET mine == {i \in 1..Len(order_items) :
                              order_items[i].order_id = orders[o].order_id}
              IN /\ Cardinality(mine) = 1
                 /\ \A i \in mine : orders[o].total = order_items[i].line_total
                 /\ orders[o].total # PyInt(0)
        /\ Len(orders) = ROW_COUNT

\* Items of more than one unit of a product whose price is not whole.
C5_Witness ==
    /\ pc = "write"
    /\ \E i \in 1..Len(order_items) :
          /\ order_items[i].quantity.v = 3
          /\ order_items[i].unit_price.v % 100 # 0
          /\ orders[i].total = order_items[i].line_total

\* C6: the result rows are in descending total spend; rows of equal spend are in
\* ascending order of first_name, one space, last_name.
C6_OrderedBySpendThenName ==
    \A i, j \in 1..Len(result) :
        i < j =>
            /\ result[i].total_spend >= result[j].total_spend
            /\ result[i].total_spend = result[j].total_spend =>
                  ~LexLess(result[j].customer_name, result[i].customer_name)
            /\ \E c \in 1..Len(db.tables["customers"].rows) :
                  LET cu == db.tables["customers"].rows[c]
                  IN /\ cu.customer_id = result[i].customer_id
                     /\ result[i].customer_name = cu.first_name \o <<" ">> \o cu.last_name

\* Spends 150.00 and 150.00: "Al Z" (the later customer_id) before "Bob A".
C6_Witness ==
    /\ pc = "reported"
    /\ Len(result) = 2
    /\ result[1].total_spend = 15000 /\ result[2].total_spend = 15000
    /\ result[1].customer_name = <<"A", "l", " ", "Z">>
    /\ result[2].customer_name = <<"B", "o", "b", " ", "A">>
    /\ result[1].customer_id > result[2].customer_id

\* The line_total of every order item of every order of customer id.
RECURSIVE SpendUpTo(_, _, _)
SpendUpTo(tables, id, n) ==
    IF n = 0 THEN 0
    ELSE LET it == tables["order_items"].rows[n]
             os == tables["orders"].rows
         IN (IF \E o \in 1..Len(os) : os[o].order_id = it.order_id /\ os[o].customer_id = id
             THEN it.line_total ELSE 0)
            + SpendUpTo(tables, id, n - 1)

ZeroCell == <<"$", "0", ".", "0", "0", " ", " ", " ", " ", " ", " ">>

\* C7: the result has exactly one row per customer, with the sum of the line
\* totals of the customer's order items (0 without any), and a customer who
\* spent nothing is printed with $0.00.
C7_OneRowPerCustomer ==
    (pc \in {"print", "reported"}) =>
        LET cs == db.tables["customers"].rows
        IN /\ Len(result) = Len(cs)
           /\ \A c \in 1..Len(cs) :
                 \E k \in 1..Len(result) :
                    /\ result[k].customer_id = cs[c].customer_id
                    /\ result[k].total_spend
                          = SpendUpTo(db.tables, cs[c].customer_id,
                                      Len(db.tables["order_items"].rows))
           /\ (pc = "reported" /\ Len(cs) > 0) =>
                 /\ Len(out) = Len(result) + 4
                 /\ \A k \in 1..Len(result) :
                       result[k].total_spend = 0 =>
                          SubSeq(out[k + 4], Len(out[k + 4]) - 10, Len(out[k + 4])) = ZeroCell

\* A customer without orders and one whose order has no item, both printed,
\* below a customer with two items.
C7_Witness ==
    /\ pc = "reported"
    /\ Len(result) = 2
    /\ result[1].total_spend = 20000
    /\ result[2].total_spend = 0
    /\ Len(db.tables["orders"].rows) = 2
    /\ \E o \in 1..2 : db.tables["orders"].rows[o].customer_id = result[2].customer_id

\* C8: when a run of the Ingestor that opened a connection has ended, the
\* connection is closed.
C8_ConnectionClosedOnExit ==
    (Finished /\ conn # "none") => conn = "closed"

FkClosed(tables) ==
    /\ \A i \in 1..Len(tables["products"].rows) :
          tables["products"].rows[i].category_id
             \in IdsOf(tables["categories"].rows, "category_id")
    /\ \A i \in 1..Len(tables["orders"].rows) :
          tables["orders"].rows[i].customer_id
             \in IdsOf(tables["customers"].rows, "customer_id")
    /\ \A i \in 1..Len(tables["order_items"].rows) :
          /\ tables["order_items"].rows[i].order_id
                \in IdsOf(tables["orders"].rows, "order_id")
          /\ tables["order_items"].rows[i].product_id
                \in IdsOf(tables["products"].rows, "product_id")

\* C10: the batches go in categories, products, customers, orders, order_items:
\* during a load no table has rows before the tables ahead of it in that order
\* are loaded and every child row inserted so far has its parent row; a load of
\* the Generator's files raises no error and ends with every row committed.
C10_ParentsBeforeChildren ==
    /\ txn.active =>
          /\ FkClosed(txn.tables)
          /\ \A k \in 1..5 :
                Len(txn.tables[FileNames[k]].rows) > 0 =>
                   \A h \in 1..(k - 1) :
                      Len(txn.tables[FileNames[h]].rows) = Len(parsed[FileNames[h]])
    /\ FkClosed(db.tables)
    /\ (proc = "ingestor" /\ AllExist) => err = NoErr
    /\ (Finished /\ AllExist) =>
          /\ pc = "ingested"
          /\ \A t \in FileSet :
                /\ Len(db.tables[t].rows) = ROW_COUNT
                /\ db.tables[t].rows = ConvertFile(t, files[t])

\* Part-way through a load of generated files: products in, orders not yet.
C10_Witness ==
    /\ proc = "ingestor" /\ pc = "insert" /\ txn.active
    /\ Len(txn.tables["products"].rows) = ROW_COUNT
    /\ Len(txn.tables["customers"].rows) = ROW_COUNT
    /\ Len(txn.tables["orders"].rows) = 0
    /\ \E i \in 1..ROW_COUNT : parsed["orders"][i].customer_id = ROW_COUNT

AllWritten == \A f \in FileSet : prevFiles[f].exists

\* C9: a Generator run that follows another leaves the five files exactly as
\* the earlier run left them.
C9_SameSeedSameFiles ==
    (pc = "generated" /\ AllWritten) => files = prevFiles

\* The second run has written its files; its draws were not all equal.
C9_Witness ==
    /\ pc = "generated" /\ AllWritten /\ runs = 2
    /\ \E i, j \in 1..TapeLen : mt[i] # mt[j]
    /\ Len(files["order_items"].rows) = ROW_COUNT


====
